---- MODULE Spec2Model ----
(***************************************************************************)
(* The tournament participation client of apps-rps/rps-game-agent:         *)
(* GameProcessor (game_processor.py) driven by the web front end (app.py). *)
(* One GameProcessor instance, the background threads that run its         *)
(* monitor_and_play loop, and the server's answers as nondeterministic     *)
(* inputs.  status_log and latest_score are display-only and left out.     *)
(***************************************************************************)
EXTENDS Integers, Sequences, FiniteSets, TLC

\* ---------------------------------------------------------------- bounds
MaxThreads == 1
MaxRound == 1
MaxResults == 2
MaxResRound == 2
MaxScore == 2
MaxPlayerId == 1
FailureCap == 2
MaxInstances == 2
MaxStarts == 2
MaxClientRound == 2
MaxMatchId == 2

\* ------------------------------------------------------ program constants
max_rounds == 5
\* config.py: polls a wait loop of PSRGameClient makes before it gives up
MAX_POLL_ATTEMPTS == 300
\* config.py: MOVES
MOVES == ("rock" :> 1) @@ ("paper" :> 2) @@ ("scissors" :> 3)

\* ------------------------------------------------------------ value sets
\* Python None: in integer-valued fields, in app.py's global, as a question
None == -1
NoAgent == "None"
NoQuestion == "None"
Threads == 1..MaxThreads
\* round numbers the server reports: the first ones and the one at max_rounds
Rounds == (1..MaxRound) \cup {max_rounds}

\* tournamentStatus as sent by the server: 0, 1, 2 are known, 3 is not
TournamentCodes == 0..3
\* currentRoundStatus as sent by the server: absent (None), 0, 1, 2 known, 3 not
RoundCodes == {None} \cup (0..3)
\* currentQuestion: absent, the empty string, a question
Questions == {NoQuestion, "", "q"}

Snapshots ==
    [tournamentStatus : TournamentCodes, currentRound : Rounds,
     currentRoundStatus : RoundCodes, currentQuestion : Questions,
     canSubmit : BOOLEAN]

NoSnapshot ==
    [tournamentStatus |-> 0, currentRound |-> 1, currentRoundStatus |-> None,
     currentQuestion |-> NoQuestion, canSubmit |-> FALSE]


ResultEntries == [roundNumber : 1..MaxResRound, score : 1..MaxScore]
ResultLists == UNION {[1..n -> ResultEntries] : n \in 0..MaxResults}
\* get_player_results: an error dict, a JSON value that is not a list, a list
ResultsResponses ==
    {[kind |-> k, list |-> <<>>] : k \in {"error", "notlist"}}
        \cup {[kind |-> "list", list |-> l] : l \in ResultLists}
IsError(resp) == resp.kind = "error"

\* submit_answer: an error dict, {"success": true}, a dict with neither, and
\* the server's refusal of a round it already holds a submission for (this
\* reaches the loop as an error dict, or as a dict without success)
SubmitResponses == {"error", "success", "rejected", "duplicate"}

VARIABLES
    game_agent,            \* app.py global: None or "gp" (the instance)
    player_id,             \* self.player_id
    current_round,         \* self.current_round
    tournament_status,     \* self.tournament_status
    round_status,          \* self.round_status
    is_running,            \* self.is_running
    results,               \* self.results
    last_completed_round,  \* self.last_completed_round
    pc,                    \* position of each monitor_and_play thread
    snap,                  \* the status snapshot held in a thread's locals
    rounds_completed,      \* local rounds_completed of each thread
    stop_requested,        \* history: stop() called since the last start call
    fail_count,            \* history: consecutive failed status calls per thread
    unacked,               \* history: round of a thread's last submit, if it failed
    why,                   \* history: how each thread left its loop
    refused,               \* history: round of a thread's last submit, if the
                           \*   server refused it as already submitted
    reconnect_failed,      \* history: the last /reconnect request failed
    srv,                   \* replay: the results the server has revealed
    uninterrupted,         \* replay: a session that polled from the start
    reconnected,           \* replay: a session rebuilt by /reconnect
    raised,                \* history: a thread's last cycle ended in `except`
    client_pc,             \* PSRGameClient: position in play_tournament
    client_player_id,      \* PSRGameClient.player_id
    client_round,          \* play_tournament: current_round
    attempt,               \* the wait loops: attempt
    polls,                 \* history: polls made by the wait loop in progress
    returned,              \* play_tournament: its return value, once it has one
    reason,                \* history: the return statement that was reached
    seen,                  \* history: the answers to the last poll for a round
    move,                  \* play_tournament: move
    match_id,              \* play_tournament: match["id"]
    submitted,             \* history: the rounds whose move was posted
    created,               \* web app: GameProcessor instances constructed
    current,               \* web app: the instance game_agent names, 0 if None
    running,               \* web app: is_running of each instance
    loops                  \* web app: the threads of each instance

vars ==
    <<game_agent, player_id, current_round, tournament_status, round_status,
      is_running, results, last_completed_round, pc, snap, rounds_completed,
      stop_requested, fail_count, unacked, why, refused, reconnect_failed,
      srv, uninterrupted, reconnected, raised,
      client_pc, client_player_id, client_round, attempt, polls, returned,
      reason, seen, move, match_id, submitted,
      created, current, running, loops>>

history == <<stop_requested, fail_count, unacked, why>>

\* the two sessions compared over one server history
replay == <<srv, uninterrupted, reconnected>>

\* PSRGameClient and the run of its play_tournament
client == <<client_pc, client_player_id, client_round, attempt, polls,
            returned, reason, seen, move, match_id, submitted>>

\* the GameProcessor instances the web front end has constructed
instances == <<created, current, running, loops>>

fields ==
    <<player_id, current_round, tournament_status, round_status, is_running,
      results, last_completed_round>>

\* ------------------------------------------------------- pure functions
\* the instances /start and /reconnect construct, and the calls of
\* start_autonomous_play on each of them
Instances == 1..MaxInstances
Starts == 1..MaxStarts

\* Python truthiness of self.player_id: None and 0 are falsy
Truthy(pid) == pid # None /\ pid # 0

tournament_names(code) ==
    CASE code = 0 -> "Pending"
      [] code = 1 -> "InProgress"
      [] code = 2 -> "Completed"
      [] OTHER -> "Unknown"

\* (variant: a code outside the table reads as "Not Started")
round_names_DefaultNotStarted(code) ==
    CASE code = None -> "Not Started"
      [] code = 0 -> "Pending"
      [] code = 1 -> "InProgress"
      [] code = 2 -> "Completed"
      [] OTHER -> "Not Started"

\* line 86: round_names.get(round_status, "Unknown")
round_names(code) ==
    CASE code = None -> "Not Started"
      [] code = 0 -> "Pending"
      [] code = 1 -> "InProgress"
      [] code = 2 -> "Completed"
      [] OTHER -> "Unknown"

\* (variant: the canSubmit flag is not looked at)
CanSubmitNow_IgnoringCanSubmit(s) ==
    /\ s.tournamentStatus = 1
    /\ s.currentRoundStatus = 1
    /\ s.currentQuestion \notin {NoQuestion, ""}

\* line 107: tournament_status == 1 and round_status == 1 and can_submit and question
CanSubmitNow(s) ==
    /\ s.tournamentStatus = 1
    /\ s.currentRoundStatus = 1
    /\ s.canSubmit
    /\ s.currentQuestion \notin {NoQuestion, ""}

\* line 67: while self.is_running and rounds_completed < max_rounds
LoopCondition(t) == is_running /\ rounds_completed[t] < max_rounds

\* ------------------------------------------- PSRGameClient: the answers
\* round numbers the tournament server reports to PSRGameClient
ClientRounds == 1..(MaxClientRound + 1)

\* get_tournament_state: None on a failed request, else the JSON state, of
\* which status, currentRound, currentRoundStatus and this player's entry in
\* players (absent, isActive false, isActive true) are read
NoState ==
    [ok |-> FALSE, status |-> 0, currentRound |-> 1, currentRoundStatus |-> 0,
     me |-> "absent"]

TournamentStates ==
    {NoState} \cup
    [ok : {TRUE}, status : 0..2, currentRound : ClientRounds,
     currentRoundStatus : 0..2, me : {"absent", "inactive", "active"}]

\* get_current_match: None (404 or failed request), else id, round, status
NoMatch == [ok |-> FALSE, id |-> 0, round |-> 0, status |-> 0]

Matches ==
    {NoMatch} \cup
    [ok : {TRUE}, id : 1..MaxMatchId, round : ClientRounds, status : 1..2]

\* get_current_match_completed: None, else id, status and whether the
\* winner's name is this player's name
NoCompleted == [ok |-> FALSE, id |-> 0, status |-> 0, winner |-> ""]

CompletedMatches ==
    {NoCompleted} \cup
    [ok : {TRUE}, id : 1..MaxMatchId, status : 1..2, winner : {"me", "other"}]

\* what strategy_func returns: a move, a move in capitals, a word that is no
\* move, nothing
MoveChoices == {"rock", "Rock", "lizard", ""}

\* the server's reply to the posted move: success true, success false, a
\* failed request
MoveResponses == {"success", "refused", "error"}

\* no poll has been answered yet
NoPoll == [state |-> NoState, match |-> NoMatch]

\* a GameProcessor as __init__ leaves it, seen as a value: not yet
\* started ("none"), in its loop ("looping") or out of it ("done")
NoSession ==
    [phase |-> "none", results |-> <<>>, last_completed_round |-> 0,
     rounds_completed |-> 0]

\* ------------------------------------------------------------- Init
Init ==
    /\ game_agent = NoAgent
    /\ player_id = None
    /\ current_round = 1
    /\ tournament_status = "Not Started"
    /\ round_status = "Not Started"
    /\ is_running = FALSE
    /\ results = <<>>
    /\ last_completed_round = 0
    /\ pc = [t \in Threads |-> "unborn"]
    /\ snap = [t \in Threads |-> NoSnapshot]
    /\ rounds_completed = [t \in Threads |-> 0]
    /\ stop_requested = FALSE
    /\ fail_count = [t \in Threads |-> 0]
    /\ unacked = [t \in Threads |-> 0]
    /\ why = [t \in Threads |-> "looping"]
    /\ refused = [t \in Threads |-> 0]
    /\ reconnect_failed = FALSE
    /\ srv = <<>>
    /\ uninterrupted = NoSession
    /\ reconnected = NoSession
    /\ raised = [t \in Threads |-> FALSE]
    /\ client_pc = "idle"
    /\ client_player_id = None
    /\ client_round = 1
    /\ attempt = 0
    /\ polls = 0
    /\ returned = "none"
    /\ reason = "none"
    /\ seen = NoPoll
    /\ move = ""
    /\ match_id = 0
    /\ submitted = <<>>
    /\ created = 0
    /\ current = 0
    /\ running = [i \in Instances |-> FALSE]
    /\ loops = [i \in Instances |-> [k \in Starts |-> "unborn"]]

\* ------------------------------------------------- ResultAggregator
\* lines 162 / 193: results_response if isinstance(results_response, list) else []
ResultsOf(resp) == IF resp.kind = "list" THEN resp.list ELSE <<>>

\* (variant: the last entry's roundNumber is taken without comparing)
LastCompletedOf_Uncompared(list, prev) ==
    IF list # <<>> THEN list[Len(list)].roundNumber ELSE prev

\* lines 164-174: the last entry's roundNumber, taken only when it is larger
LastCompletedOf(list, prev) ==
    IF list # <<>> /\ list[Len(list)].roundNumber > prev
    THEN list[Len(list)].roundNumber
    ELSE prev

\* lines 151-179, for an instance whose player_id is pid
get_current_results(pid, resp) ==
    IF ~Truthy(pid) \/ IsError(resp)
    THEN UNCHANGED <<results, last_completed_round>>
    ELSE /\ results' = ResultsOf(resp)
         /\ last_completed_round' =
                LastCompletedOf(ResultsOf(resp), last_completed_round)

\* lines 181-208
get_final_results(resp) ==
    /\ results' = IF ~Truthy(player_id) \/ IsError(resp)
                  THEN results ELSE ResultsOf(resp)
    /\ UNCHANGED last_completed_round

TotalScoreOf(list) ==
    LET RECURSIVE Sum(_)
        Sum(i) == IF i = 0 THEN 0 ELSE list[i].score + Sum(i - 1)
    IN Sum(Len(list))

\* ------------------------------------------------- GameProcessor API
Fresh == player_id = None /\ \A t \in Threads : pc[t] = "unborn"

\* threading.Thread(target=self.monitor_and_play).start()
SpawnThread ==
    \E t \in Threads :
        /\ pc[t] = "unborn"
        /\ \A u \in Threads : u < t => pc[u] # "unborn"
        /\ pc' = [pc EXCEPT ![t] = "spawned"]

start_autonomous_play ==
    /\ IF is_running THEN UNCHANGED pc ELSE SpawnThread
    /\ stop_requested' = FALSE

StartAutonomousPlay ==
    /\ game_agent # NoAgent
    /\ start_autonomous_play
    /\ UNCHANGED <<game_agent, fields, snap, rounds_completed, fail_count,
                   unacked, why>>
    /\ UNCHANGED <<refused, reconnect_failed, replay, raised, client, instances>>

Stop ==
    /\ game_agent # NoAgent
    /\ is_running' = FALSE
    /\ stop_requested' = TRUE
    /\ UNCHANGED <<game_agent, player_id, current_round, tournament_status,
                   round_status, results, last_completed_round, pc, snap,
                   rounds_completed, fail_count, unacked, why>>
    /\ UNCHANGED <<refused, reconnect_failed, replay, raised, client, instances>>

\* ------------------------------------------------------ app.py handlers
\* /start: construct, register_player, start_autonomous_play
StartGame ==
    /\ game_agent = NoAgent /\ Fresh
    /\ \E kind \in {"error", "nokey", "playerId"}, pid \in 1..MaxPlayerId :
          IF kind # "playerId"
          THEN UNCHANGED vars
          ELSE /\ player_id' = pid
               /\ game_agent' = "gp"
               /\ start_autonomous_play
               /\ reconnect_failed' = FALSE
               /\ UNCHANGED <<current_round, tournament_status, round_status,
                              is_running, results, last_completed_round, snap,
                              rounds_completed, fail_count, unacked, why,
                              refused, replay, raised, client,
                              instances>>

\* (variant: a failed verification keeps the instance and starts it)
ReconnectGame_KeepingSession ==
    /\ game_agent = NoAgent /\ Fresh
    /\ \E pid \in 0..MaxPlayerId, status \in {"error", "ok"},
          resp \in ResultsResponses :
          /\ player_id' = pid
          /\ game_agent' = "gp"
          /\ get_current_results(pid, resp)
          /\ start_autonomous_play
          /\ reconnect_failed' = (status = "error")
          /\ UNCHANGED <<current_round, tournament_status, round_status,
                         is_running, snap, rounds_completed, fail_count,
                         unacked, why, refused, replay, raised, client,
                              instances>>

\* /reconnect: construct with the given id, verify by a status call (on an
\* error the instance is dropped), get_current_results, start_autonomous_play
ReconnectGame ==
    /\ game_agent = NoAgent /\ Fresh
    /\ \E pid \in 0..MaxPlayerId, status \in {"error", "ok"},
          resp \in ResultsResponses :
          IF status = "error"
          THEN /\ game_agent' = NoAgent
               /\ reconnect_failed' = TRUE
               /\ UNCHANGED <<fields, pc, snap, rounds_completed, history,
                              refused, replay, raised, client,
                              instances>>
          ELSE /\ player_id' = pid
               /\ game_agent' = "gp"
               /\ get_current_results(pid, resp)
               /\ start_autonomous_play
               /\ reconnect_failed' = FALSE
               /\ UNCHANGED <<current_round, tournament_status, round_status,
                              is_running, snap, rounds_completed, fail_count,
                              unacked, why, refused, replay, raised, client,
                              instances>>

\* /reset: stop() and forget the instance
ResetGame ==
    /\ game_agent # NoAgent
    /\ is_running' = FALSE
    /\ stop_requested' = TRUE
    /\ game_agent' = NoAgent
    /\ UNCHANGED <<player_id, current_round, tournament_status, round_status,
                   results, last_completed_round, pc, snap, rounds_completed,
                   fail_count, unacked, why>>
    /\ UNCHANGED <<refused, reconnect_failed, replay, raised, client, instances>>

\* ------------------------------------------- monitor_and_play, per thread
\* lines 57-65
Enter(t) ==
    /\ pc[t] = "spawned"
    /\ IF ~Truthy(player_id)
       THEN /\ pc' = [pc EXCEPT ![t] = "done"]
            /\ why' = [why EXCEPT ![t] = "unregistered"]
            /\ UNCHANGED <<is_running, rounds_completed>>
       ELSE /\ is_running' = TRUE
            /\ rounds_completed' = [rounds_completed EXCEPT ![t] = 0]
            /\ pc' = [pc EXCEPT ![t] = "while"]
            /\ UNCHANGED why
    /\ UNCHANGED <<game_agent, player_id, current_round, tournament_status,
                   round_status, results, last_completed_round, snap,
                   stop_requested, fail_count, unacked>>
    /\ UNCHANGED <<refused, reconnect_failed, replay, raised, client, instances>>

\* line 67: the loop condition is false
LoopEnds(t) ==
    /\ pc[t] = "while"
    /\ ~LoopCondition(t)
    /\ pc' = [pc EXCEPT ![t] = "exit"]
    /\ why' = [why EXCEPT ![t] =
                   IF ~is_running THEN "not_running" ELSE "max_rounds"]
    /\ UNCHANGED <<game_agent, fields, snap, rounds_completed, stop_requested,
                   fail_count, unacked>>
    /\ raised' = [raised EXCEPT ![t] = FALSE]
    /\ UNCHANGED <<refused, reconnect_failed, replay, client, instances>>

\* (variant: a failed status call blanks the displayed phases)
StatusFails_Blanking(t) ==
    /\ pc[t] = "while"
    /\ LoopCondition(t)
    /\ pc' = [pc EXCEPT ![t] = "while"]
    /\ fail_count' = [fail_count EXCEPT ![t] =
                          IF @ < FailureCap THEN @ + 1 ELSE @]
    /\ tournament_status' = "Unknown"
    /\ round_status' = "Unknown"
    /\ UNCHANGED <<game_agent, player_id, current_round, is_running, results,
                   last_completed_round, snap, rounds_completed, stop_requested,
                   unacked, why>>
    /\ raised' = [raised EXCEPT ![t] = FALSE]
    /\ UNCHANGED <<refused, reconnect_failed, replay, client, instances>>

\* lines 67-75: a cycle begins and its status call fails
StatusFails(t) ==
    /\ pc[t] = "while"
    /\ LoopCondition(t)
    /\ pc' = [pc EXCEPT ![t] = "while"]
    /\ fail_count' = [fail_count EXCEPT ![t] =
                          IF @ < FailureCap THEN @ + 1 ELSE @]
    /\ UNCHANGED <<game_agent, fields, snap, rounds_completed, stop_requested,
                   unacked, why>>
    /\ raised' = [raised EXCEPT ![t] = FALSE]
    /\ UNCHANGED <<refused, reconnect_failed, replay, client, instances>>

\* (variant: the Completed test of line 102 is missing)
AfterStatus_WithoutCompleted(s) ==
    IF CanSubmitNow(s) THEN "submit" ELSE "while"

\* where the cycle goes after the snapshot is stored (lines 102, 107, 137)
AfterStatus(s) ==
    IF s.tournamentStatus = 2 THEN "final"
    ELSE IF CanSubmitNow(s) THEN "submit"
    ELSE "while"

\* lines 67-107: a cycle begins and its status call succeeds
StatusSucceeds(t) ==
    /\ pc[t] = "while"
    /\ LoopCondition(t)
    /\ \E s \in Snapshots :
          /\ tournament_status' = tournament_names(s.tournamentStatus)
          /\ round_status' = round_names(s.currentRoundStatus)
          /\ current_round' = s.currentRound
          /\ pc' = [pc EXCEPT ![t] = AfterStatus(s)]
          /\ snap' = [snap EXCEPT ![t] =
                         IF AfterStatus(s) = "while" THEN NoSnapshot ELSE s]
    /\ fail_count' = [fail_count EXCEPT ![t] = 0]
    /\ UNCHANGED <<game_agent, player_id, is_running, results,
                   last_completed_round, rounds_completed, stop_requested,
                   unacked, why>>
    /\ raised' = [raised EXCEPT ![t] = FALSE]
    /\ UNCHANGED <<refused, reconnect_failed, replay, client, instances>>

\* lines 102-105: get_final_results, break
FinalResults(t) ==
    /\ pc[t] = "final"
    /\ \E resp \in ResultsResponses : get_final_results(resp)
    /\ pc' = [pc EXCEPT ![t] = "exit"]
    /\ snap' = [snap EXCEPT ![t] = NoSnapshot]
    /\ why' = [why EXCEPT ![t] = "completed"]
    /\ UNCHANGED <<game_agent, player_id, current_round, tournament_status,
                   round_status, is_running, rounds_completed, stop_requested,
                   fail_count, unacked>>
    /\ UNCHANGED <<refused, reconnect_failed, replay, raised, client, instances>>

\* where the cycle goes after submit_answer returned (lines 125-137)
AfterSubmit(resp) == IF resp = "success" THEN "fetch" ELSE "while"

\* (variant: the round counts as completed whatever submit_answer returned)
RoundsCompletedAfter_Always(resp, done, round) == round

\* lines 125-129: rounds_completed = current_round on success only
RoundsCompletedAfter(resp, done, round) == IF resp = "success" THEN round ELSE done

\* (variant: a failed submit_answer ends the run)
Submit_StoppingOnFailure(t) ==
    /\ pc[t] = "submit"
    /\ \E resp \in SubmitResponses :
          /\ rounds_completed' = [rounds_completed EXCEPT ![t] =
                 RoundsCompletedAfter(resp, @, snap[t].currentRound)]
          /\ pc' = [pc EXCEPT ![t] = AfterSubmit(resp)]
          /\ unacked' = [unacked EXCEPT ![t] =
                 IF resp = "error" THEN snap[t].currentRound ELSE 0]
          /\ refused' = [refused EXCEPT ![t] =
                 IF resp = "duplicate" THEN snap[t].currentRound ELSE 0]
          /\ is_running' = (resp = "success" /\ is_running)
    /\ snap' = [snap EXCEPT ![t] = NoSnapshot]
    /\ UNCHANGED <<game_agent, player_id, current_round, tournament_status,
                   round_status, results, last_completed_round, stop_requested,
                   fail_count, why>>
    /\ UNCHANGED <<reconnect_failed, replay, raised, client, instances>>

\* lines 109-134: answer, move, submit_answer
Submit(t) ==
    /\ pc[t] = "submit"
    /\ \E resp \in SubmitResponses :
          /\ rounds_completed' = [rounds_completed EXCEPT ![t] =
                 RoundsCompletedAfter(resp, @, snap[t].currentRound)]
          /\ pc' = [pc EXCEPT ![t] = AfterSubmit(resp)]
          /\ unacked' = [unacked EXCEPT ![t] =
                 IF resp = "error" THEN snap[t].currentRound ELSE 0]
          /\ refused' = [refused EXCEPT ![t] =
                 IF resp = "duplicate" THEN snap[t].currentRound ELSE 0]
    /\ snap' = [snap EXCEPT ![t] = NoSnapshot]
    /\ UNCHANGED <<game_agent, fields, stop_requested, fail_count, why>>
    /\ UNCHANGED <<reconnect_failed, replay, raised, client, instances>>

\* (variant: an exception raised inside the cycle ends the loop)
SubmitRaises_EndingRun(t) ==
    /\ pc[t] = "submit"
    /\ pc' = [pc EXCEPT ![t] = "exit"]
    /\ snap' = [snap EXCEPT ![t] = NoSnapshot]
    /\ UNCHANGED <<game_agent, fields, rounds_completed, stop_requested,
                   fail_count, unacked, why>>
    /\ raised' = [raised EXCEPT ![t] = TRUE]
    /\ UNCHANGED <<refused, reconnect_failed, replay, client, instances>>

\* lines 139-141: an exception raised inside the cycle (the answer provider)
SubmitRaises(t) ==
    /\ pc[t] = "submit"
    /\ pc' = [pc EXCEPT ![t] = "while"]
    /\ snap' = [snap EXCEPT ![t] = NoSnapshot]
    /\ UNCHANGED <<game_agent, fields, rounds_completed, stop_requested,
                   fail_count, unacked, why>>
    /\ raised' = [raised EXCEPT ![t] = TRUE]
    /\ UNCHANGED <<refused, reconnect_failed, replay, client, instances>>

\* lines 131-132: get_current_results after a successful submit
FetchResults(t) ==
    /\ pc[t] = "fetch"
    /\ \E resp \in ResultsResponses : get_current_results(player_id, resp)
    /\ pc' = [pc EXCEPT ![t] = "while"]
    /\ UNCHANGED <<game_agent, player_id, current_round, tournament_status,
                   round_status, is_running, snap, rounds_completed,
                   stop_requested, fail_count, unacked, why>>
    /\ UNCHANGED <<refused, reconnect_failed, replay, raised, client, instances>>

\* (variant: the loop is left with is_running as it was)
Exit_KeepingRunning(t) ==
    /\ pc[t] = "exit"
    /\ pc' = [pc EXCEPT ![t] = "done"]
    /\ UNCHANGED <<game_agent, fields, snap, rounds_completed, stop_requested,
                   fail_count, unacked, why>>
    /\ UNCHANGED <<refused, reconnect_failed, replay, raised, client, instances>>

\* lines 143-144
Exit(t) ==
    /\ pc[t] = "exit"
    /\ is_running' = FALSE
    /\ pc' = [pc EXCEPT ![t] = "done"]
    /\ UNCHANGED <<game_agent, player_id, current_round, tournament_status,
                   round_status, results, last_completed_round, snap,
                   rounds_completed, stop_requested, fail_count, unacked, why>>
    /\ UNCHANGED <<refused, reconnect_failed, replay, raised, client, instances>>

Cycle(t) ==
    \/ Enter(t)
    \/ LoopEnds(t)
    \/ StatusFails(t)
    \/ StatusSucceeds(t)
    \/ FinalResults(t)
    \/ Submit(t)
    \/ SubmitRaises(t)
    \/ FetchResults(t)
    \/ Exit(t)

Next ==
    \/ StartGame
    \/ ReconnectGame
    \/ ResetGame
    \/ StartAutonomousPlay
    \/ Stop
    \/ \E t \in Threads : Cycle(t)

Spec == Init /\ [][Next]_vars

\* a cycle of thread t whose status call reports the tournament Completed
ObserveCompleted(t) == StatusSucceeds(t) /\ pc'[t] = "final"

\* the server has no results to give: every result fetch stores an empty list
NoResults == results' = <<>>

\* monitor_and_play where the server has no results to give
QuietCycle(t) ==
    \/ Enter(t)
    \/ LoopEnds(t)
    \/ StatusFails(t)
    \/ StatusSucceeds(t)
    \/ FinalResults(t) /\ NoResults
    \/ Submit(t)
    \/ SubmitRaises(t)
    \/ FetchResults(t) /\ NoResults
    \/ Exit(t)

QuietNext ==
    \/ StartGame
    \/ ReconnectGame /\ NoResults
    \/ ResetGame
    \/ StartAutonomousPlay
    \/ Stop
    \/ \E t \in Threads : QuietCycle(t)

\* The application with a server that has no results to give (what a fetch
\* stores plays no part in whether a loop ends).  Every thread that can take
\* a step takes one (each is an operating-system thread that sleeps for a
\* bounded time between cycles), and a loop that keeps polling is in the end
\* answered with Completed.
FairSpec ==
    /\ Init /\ [][QuietNext]_vars
    /\ \A t \in Threads :
          WF_vars(QuietCycle(t)) /\ SF_vars(ObserveCompleted(t))

\* ------------------------------------------------------ PSRGameClient
\* the variables PSRGameClient leaves alone
outside_client ==
    <<game_agent, fields, pc, snap, rounds_completed, history, refused,
      reconnect_failed, replay, raised, instances>>

\* str.lower on the words a strategy returns
Lower(m) == IF m = "Rock" THEN "rock" ELSE m

\* submit_move, line 208: move.lower() in MOVES
ValidMove(m) == Lower(m) \in DOMAIN MOVES

\* play_tournament returns v at the return statement named why_
Return(v, why_) ==
    /\ client_pc' = "returned"
    /\ returned' = v
    /\ reason' = why_

\* a wait loop is entered
EnterWait(loop) ==
    /\ client_pc' = loop
    /\ attempt' = 0
    /\ polls' = 0

\* one more iteration of the wait loop in progress
NextAttempt ==
    /\ attempt' = attempt + 1
    /\ UNCHANGED <<client_pc, returned, reason>>

\* history: one more poll, counted up to one past the limit
CountPoll == polls' = IF polls <= MAX_POLL_ATTEMPTS THEN polls + 1 ELSE polls

\* register_player, lines 29-70
RegisterPlayer ==
    /\ client_pc = "idle"
    /\ client_player_id = None
    /\ \E ok \in BOOLEAN :
          client_player_id' = IF ok THEN 1 ELSE None
    /\ UNCHANGED <<client_pc, client_round, attempt, polls, returned, reason,
                   seen, move, match_id, submitted, outside_client>>

\* play_tournament, lines 311-317
PlayTournament ==
    /\ client_pc = "idle"
    /\ IF ~Truthy(client_player_id)
       THEN /\ Return("False", "unregistered")
            /\ UNCHANGED <<attempt, polls>>
       ELSE /\ EnterWait("wait_start")
            /\ UNCHANGED <<returned, reason>>
    /\ UNCHANGED <<client_player_id, client_round, seen, move, match_id,
                   submitted, outside_client>>

\* wait_for_tournament_start, lines 242-250: one iteration; line 317
WaitStartPoll ==
    /\ client_pc = "wait_start"
    /\ attempt < MAX_POLL_ATTEMPTS
    /\ \E st \in TournamentStates :
          /\ seen' = [state |-> st, match |-> NoMatch]
          /\ IF st.ok /\ st.status # 0
             THEN /\ EnterWait("wait_round")
                  /\ client_round' = 1
                  /\ UNCHANGED <<returned, reason>>
             ELSE /\ NextAttempt
                  /\ CountPoll
                  /\ UNCHANGED client_round
    /\ UNCHANGED <<client_player_id, move, match_id, submitted,
                   outside_client>>

\* (variant: a wait loop that has used up its attempts starts over)
WaitTimeout_StartingOver ==
    /\ client_pc \in {"wait_start", "wait_round", "wait_match"}
    /\ attempt = MAX_POLL_ATTEMPTS
    /\ attempt' = 0
    /\ UNCHANGED <<client_pc, returned, reason>>
    /\ UNCHANGED <<client_player_id, client_round, polls, seen, move,
                   match_id, submitted, outside_client>>

\* a wait loop has used up its attempts: it returns False, and so does
\* play_tournament (lines 252-253, 298-299, 435-436; 314-315, 321-323, 354-355)
WaitTimeout ==
    /\ client_pc \in {"wait_start", "wait_round", "wait_match"}
    /\ attempt = MAX_POLL_ATTEMPTS
    /\ Return("False", "timeout")
    /\ UNCHANGED <<client_player_id, client_round, attempt, polls, seen, move,
                   match_id, submitted, outside_client>>

\* lines 273-293: what one iteration of wait_for_round_to_start decides from
\* the state st and, when it asks for it, the match m
RoundDecision(st, m, expected_round) ==
    IF ~st.ok THEN "wait"
    ELSE IF st.me # "active" THEN "eliminated"
    ELSE IF st.currentRound > expected_round THEN "missed"
    ELSE IF /\ st.currentRound = expected_round
            /\ st.currentRoundStatus = 1
            /\ m.ok /\ m.round = expected_round /\ m.status = 1
    THEN "started"
    ELSE "wait"

\* line 290: get_current_match is called only when the round is in progress
AsksMatch(st, expected_round) ==
    /\ st.ok /\ st.me = "active"
    /\ st.currentRound = expected_round /\ st.currentRoundStatus = 1

\* (variant: the round counts as started without asking for the match)
WaitRoundPoll_WithoutMatch ==
    /\ client_pc = "wait_round"
    /\ attempt < MAX_POLL_ATTEMPTS
    /\ \E st \in TournamentStates :
          /\ seen' = [state |-> st, match |-> NoMatch]
          /\ IF AsksMatch(st, client_round)
             THEN /\ client_pc' = "play"
                  /\ UNCHANGED <<attempt, polls, returned, reason>>
             ELSE CASE RoundDecision(st, NoMatch, client_round) = "wait" ->
                           NextAttempt /\ CountPoll
                    [] OTHER ->
                           /\ Return("False",
                                     RoundDecision(st, NoMatch, client_round))
                           /\ UNCHANGED <<attempt, polls>>
    /\ UNCHANGED <<client_player_id, client_round, move, match_id, submitted,
                   outside_client>>

\* wait_for_round_to_start, lines 267-296: one iteration; lines 321-323
WaitRoundPoll ==
    /\ client_pc = "wait_round"
    /\ attempt < MAX_POLL_ATTEMPTS
    /\ \E st \in TournamentStates, m \in Matches :
          /\ (m = NoMatch \/ AsksMatch(st, client_round))
          /\ seen' = [state |-> st, match |-> m]
          /\ CASE RoundDecision(st, m, client_round) = "started" ->
                      /\ client_pc' = "play"
                      /\ UNCHANGED <<attempt, polls, returned, reason>>
               [] RoundDecision(st, m, client_round) = "wait" ->
                      NextAttempt /\ CountPoll
               [] OTHER ->
                      /\ Return("False", RoundDecision(st, m, client_round))
                      /\ UNCHANGED <<attempt, polls>>
    /\ UNCHANGED <<client_player_id, client_round, move, match_id, submitted,
                   outside_client>>

\* lines 325-351: get_current_match, the strategy, submit_move (lines 195-232)
PlayRound ==
    /\ client_pc = "play"
    /\ \E m \in Matches, mv \in MoveChoices, resp \in MoveResponses :
          IF ~m.ok
          THEN /\ Return("False", "no_match")
               /\ UNCHANGED <<move, match_id, submitted, attempt, polls>>
          ELSE /\ move' = mv
               /\ match_id' = m.id
               /\ IF mv = ""
                  THEN /\ Return("False", "no_move")
                       /\ UNCHANGED <<submitted, attempt, polls>>
                  ELSE IF ~ValidMove(mv)
                  THEN /\ Return("False", "failed_submit")
                       /\ UNCHANGED <<submitted, attempt, polls>>
                  ELSE /\ submitted' = Append(submitted, client_round)
                       /\ IF resp = "success"
                          THEN /\ EnterWait("wait_match")
                               /\ UNCHANGED <<returned, reason>>
                          ELSE /\ Return("False", "failed_submit")
                               /\ UNCHANGED <<attempt, polls>>
    /\ seen' = NoPoll
    /\ UNCHANGED <<client_player_id, client_round, outside_client>>

\* _wait_for_match_completion, lines 405-433: one iteration; lines 354-355
WaitMatchPoll ==
    /\ client_pc = "wait_match"
    /\ attempt < MAX_POLL_ATTEMPTS
    /\ \E cm \in CompletedMatches :
          IF cm.ok /\ cm.id = match_id /\ cm.status = 2
          THEN IF cm.winner = "me"
               THEN /\ client_pc' = "check"
                    /\ UNCHANGED <<attempt, polls, returned, reason>>
               ELSE /\ Return("False", "lost")
                    /\ UNCHANGED <<attempt, polls>>
          ELSE NextAttempt /\ CountPoll
    /\ UNCHANGED <<client_player_id, client_round, seen, move, match_id,
                   submitted, outside_client>>

\* (variant: a round number is skipped)
NextRound_Skipping(r) == r + 2

\* line 366: current_round += 1
NextRound(r) == r + 1

\* (variant: any state that could be read counts as Completed)
CheckCompletion_AnyStatus ==
    /\ client_pc = "check"
    /\ \E st \in TournamentStates :
          /\ seen' = [state |-> st, match |-> NoMatch]
          /\ IF st.ok
             THEN /\ Return("True", "completed")
                  /\ UNCHANGED <<client_round, attempt, polls>>
             ELSE /\ client_round < MaxClientRound
                  /\ client_round' = NextRound(client_round)
                  /\ EnterWait("wait_round")
                  /\ UNCHANGED <<returned, reason>>
    /\ UNCHANGED <<client_player_id, move, match_id, submitted,
                   outside_client>>

\* lines 357-366: the tournament is Completed, or the next round is awaited
CheckCompletion ==
    /\ client_pc = "check"
    /\ \E st \in TournamentStates :
          /\ seen' = [state |-> st, match |-> NoMatch]
          /\ IF st.ok /\ st.status = 2
             THEN /\ Return("True", "completed")
                  /\ UNCHANGED <<client_round, attempt, polls>>
             ELSE /\ client_round < MaxClientRound
                  /\ client_round' = NextRound(client_round)
                  /\ EnterWait("wait_round")
                  /\ UNCHANGED <<returned, reason>>
    /\ UNCHANGED <<client_player_id, move, match_id, submitted,
                   outside_client>>

NextClient ==
    \/ RegisterPlayer
    \/ PlayTournament
    \/ WaitStartPoll
    \/ WaitTimeout
    \/ WaitRoundPoll
    \/ PlayRound
    \/ WaitMatchPoll
    \/ CheckCompletion

SpecClient == Init /\ [][NextClient]_vars

\* ------------------------------------ the instances of the web front end
\* Every /start and /reconnect constructs a GameProcessor and makes it the
\* global game_agent; each instance has its own is_running and its own
\* threads.  What the threads poll and submit is left out here.

\* the variables the instances leave alone
outside_instances ==
    <<game_agent, fields, pc, snap, rounds_completed, history, refused,
      reconnect_failed, replay, raised, client>>

\* game_processor.py lines 210-217 on instance i: nothing when is_running,
\* else a new thread
StartOn(i) ==
    IF running[i]
    THEN UNCHANGED loops
    ELSE \E k \in Starts :
            /\ loops[i][k] = "unborn"
            /\ \A j \in Starts : j < k => loops[i][j] # "unborn"
            /\ loops' = [loops EXCEPT ![i][k] = "spawned"]

\* app.py /start (lines 43-64) and /reconnect (lines 66-102): a new instance
\* replaces game_agent; when registration or verification fails game_agent
\* becomes None, else start_autonomous_play is called on the new instance
WebStart ==
    /\ created < MaxInstances
    /\ created' = created + 1
    /\ \E ok \in BOOLEAN :
          IF ok
          THEN /\ current' = created + 1
               /\ StartOn(created + 1)
          ELSE /\ current' = 0
               /\ UNCHANGED loops
    /\ UNCHANGED <<running, outside_instances>>

\* app.py /reset (lines 104-113): stop() on game_agent, then game_agent = None
WebReset ==
    /\ current # 0
    /\ running' = [running EXCEPT ![current] = FALSE]
    /\ current' = 0
    /\ UNCHANGED <<created, loops, outside_instances>>

\* one more call of start_autonomous_play on the instance game_agent names
StartCall ==
    /\ current # 0
    /\ StartOn(current)
    /\ UNCHANGED <<created, current, running, outside_instances>>

\* monitor_and_play, line 61: the thread sets is_running
ThreadEnters(i, k) ==
    /\ loops[i][k] = "spawned"
    /\ loops' = [loops EXCEPT ![i][k] = "while"]
    /\ running' = [running EXCEPT ![i] = TRUE]
    /\ UNCHANGED <<created, current, outside_instances>>

\* lines 67 and 143: the loop test reads is_running false; the thread ends
ThreadLeaves(i, k) ==
    /\ loops[i][k] = "while"
    /\ ~running[i]
    /\ loops' = [loops EXCEPT ![i][k] = "done"]
    /\ running' = [running EXCEPT ![i] = FALSE]
    /\ UNCHANGED <<created, current, outside_instances>>

\* lines 102-105, 67 and 143: the loop ends on Completed or on max_rounds
ThreadCompletes(i, k) ==
    /\ loops[i][k] = "while"
    /\ running[i]
    /\ loops' = [loops EXCEPT ![i][k] = "done"]
    /\ running' = [running EXCEPT ![i] = FALSE]
    /\ UNCHANGED <<created, current, outside_instances>>

NextInstances ==
    \/ WebStart
    \/ WebReset
    \/ StartCall
    \/ \E i \in Instances, k \in Starts : ThreadEnters(i, k)
    \/ \E i \in Instances, k \in Starts : ThreadLeaves(i, k)
    \/ \E i \in Instances, k \in Starts : ThreadCompletes(i, k)

SpecInstances == Init /\ [][NextInstances]_vars

\* Every thread that can enter its loop, or can leave it because is_running
\* is false, does so (each is an operating-system thread whose cycle sleeps
\* for a bounded time).  Nothing makes the server report Completed.
FairSpecInstances ==
    /\ SpecInstances
    /\ \A i \in Instances, k \in Starts :
          WF_vars(ThreadEnters(i, k)) /\ WF_vars(ThreadLeaves(i, k))

\* ------------------------------------- two sessions over one history
\* One GameProcessor is started and polls without interruption; a second is
\* built by /reconnect at some point of the same server history.  From then
\* on both receive the same status snapshots, the same submit responses and
\* the same result lists.

\* the variables of the running application, which the replay leaves alone
application == <<game_agent, fields, pc, snap, rounds_completed, history,
                 refused, reconnect_failed>>

\* monitor_and_play, one cycle (lines 67-141) of an instance whose status
\* call returned s, whose submit_answer (if made) returned sub, and whose
\* result fetch (if made) returned list
SessionCycle(ses, s, sub, list) ==
    IF ses.phase # "looping" THEN ses
    ELSE IF ~(ses.rounds_completed < max_rounds)
    THEN [ses EXCEPT !.phase = "done"]
    ELSE IF AfterStatus(s) = "final"
    THEN [ses EXCEPT !.results = ResultsOf([kind |-> "list", list |-> list]),
                     !.phase = "done"]
    ELSE IF AfterStatus(s) = "submit" /\ AfterSubmit(sub) = "fetch"
    THEN [ses EXCEPT
             !.rounds_completed = RoundsCompletedAfter(sub, @, s.currentRound),
             !.results = ResultsOf([kind |-> "list", list |-> list]),
             !.last_completed_round = LastCompletedOf(list, @)]
    ELSE ses

\* /start: register_player succeeds, the loop is entered
ReplayStart ==
    /\ uninterrupted.phase = "none"
    /\ uninterrupted' = [NoSession EXCEPT !.phase = "looping"]
    /\ UNCHANGED <<srv, reconnected, application, raised, client, instances>>

\* the server closes a round and reveals its result
ServerReveals ==
    /\ uninterrupted.phase # "none"
    /\ Len(srv) < MaxResRound
    /\ \E sc \in 1..MaxScore :
          srv' = Append(srv, [roundNumber |-> Len(srv) + 1, score |-> sc])
    /\ UNCHANGED <<uninterrupted, reconnected, application, raised, client,
                   instances>>

\* /reconnect with a known player id: get_current_results, then the loop
ReplayReconnect ==
    /\ uninterrupted.phase # "none"
    /\ reconnected.phase = "none"
    /\ reconnected' =
          [phase |-> "looping",
           results |-> ResultsOf([kind |-> "list", list |-> srv]),
           last_completed_round |-> LastCompletedOf(srv, 0),
           rounds_completed |-> 0]
    /\ UNCHANGED <<srv, uninterrupted, application, raised, client, instances>>

\* one poll cycle, seen by every session that is in its loop
ReplayCycle ==
    /\ "looping" \in {uninterrupted.phase, reconnected.phase}
    /\ \E s \in Snapshots, sub \in SubmitResponses :
          /\ uninterrupted' = SessionCycle(uninterrupted, s, sub, srv)
          /\ reconnected' = SessionCycle(reconnected, s, sub, srv)
    /\ UNCHANGED <<srv, application, raised, client, instances>>

NextReplay ==
    \/ ReplayStart
    \/ ServerReveals
    \/ ReplayReconnect
    \/ ReplayCycle

SpecReplay == Init /\ [][NextReplay]_vars

\* ------------------------------------------------- app.py /api/status
\* lines 115-132, without the log lines
StatusView ==
    [status |-> IF game_agent = NoAgent THEN "not_started"
                ELSE IF is_running THEN "running" ELSE "stopped",
     player_id |-> IF game_agent = NoAgent THEN None ELSE player_id,
     tournament_status |-> IF game_agent = NoAgent THEN "" ELSE tournament_status,
     round_status |-> IF game_agent = NoAgent THEN "" ELSE round_status,
     current_round |-> IF game_agent = NoAgent THEN 0 ELSE current_round,
     results_count |-> IF game_agent = NoAgent THEN 0 ELSE Len(results)]

\* ================================================================ claims

\* A step in which thread t begins a poll cycle and something of it shows.
CycleBegins(t) ==
    /\ pc[t] = "while"
    /\ \/ pc'[t] \in {"submit", "final"}
       \/ fail_count'[t] # fail_count[t]
       \/ <<tournament_status, round_status, current_round>>'
              # <<tournament_status, round_status, current_round>>

\* C1: once a submit for round N has succeeded, a later poll cycle of the same
\* loop that still shows round N open for submission makes no further submit
\* call (here: the round a loop last had acknowledged is never submitted again).
C1_NoSecondSubmit ==
    [][\A t \in Threads :
          (pc[t] = "while" /\ pc'[t] = "submit")
              => snap'[t].currentRound # rounds_completed[t]]_vars

C4_LastCompletedMonotonic ==
    [][last_completed_round' >= last_completed_round]_vars

\* a shorter, older list has arrived after round 2 was seen
C4_Witness ==
    /\ last_completed_round = 2
    /\ Len(results) = 1 /\ results[1].roundNumber = 1

\* C5: every entry the results hold is still held, unchanged, after any step.
C5_ResultsKept ==
    [][\A i \in 1..Len(results) :
          \E j \in 1..Len(results') : results'[j] = results[i]]_vars

\* a step that is a stop() call: running cleared, no thread moves
StopStep ==
    /\ stop_requested' /\ ~is_running'
    /\ pc' = pc

\* a thread started by start_autonomous_play reaches line 61
EnterStep == \E t \in Threads : pc[t] = "spawned" /\ pc'[t] = "while"

\* thread t leaves monitor_and_play (line 143) having left its loop for `reasons`
ExitStep(reasons) ==
    \E t \in Threads : pc[t] = "exit" /\ pc'[t] = "done" /\ why[t] \in reasons

C7_NoCycleAfterStop ==
    [][\A t \in Threads : stop_requested => ~CycleBegins(t)]_vars

\* C8: a cycle whose status call fails leaves the session state and the status
\* view as they were, and running true.
C8_FailedPollChangesNothing ==
    [][\A t \in Threads :
          fail_count'[t] > fail_count[t] =>
              /\ UNCHANGED <<tournament_status, round_status, current_round,
                             results, last_completed_round, player_id>>
              /\ is_running /\ is_running'
              /\ StatusView' = StatusView]_vars

C8_Witness ==
    \E t \in Threads :
        /\ fail_count[t] = FailureCap
        /\ tournament_status = "InProgress" /\ round_status = "InProgress"
        /\ current_round = max_rounds /\ results # <<>>

\* C9: after FailureCap consecutive failed status calls the run has ended.
C9_ConnectionLostAtCap ==
    \A t \in Threads : fail_count[t] >= FailureCap => pc[t] \in {"exit", "done"}

\* the next cycle of thread t submits for the round whose submit failed
ReAttempt(t) ==
    /\ StatusSucceeds(t)
    /\ pc'[t] = "submit"
    /\ snap'[t].currentRound = unacked[t]

\* a submit that fails records nothing and leaves running as it was
C10_FailedSubmitStep ==
    \A t \in Threads :
        (pc[t] = "submit" /\ pc'[t] = "while")
            => /\ rounds_completed'[t] = rounds_completed[t]
               /\ is_running' = is_running

\* while running stays true the next cycle can submit that round again
C10_RetryOpen ==
    \A t \in Threads :
        (unacked[t] # 0 /\ pc[t] = "while" /\ is_running) => ENABLED ReAttempt(t)

\* C10: a submit that fails with a network error records no submission for
\* the round (rounds_completed keeps its value, the loop goes on), and the next
\* poll cycle that shows the round open submits for it again.
C10_FailedSubmitIsRetried ==
    [][C10_FailedSubmitStep]_vars /\ []C10_RetryOpen

C10_Witness ==
    \E t \in Threads :
        /\ pc[t] = "submit"
        /\ unacked[t] = snap[t].currentRound
        /\ rounds_completed[t] # snap[t].currentRound

\* C11: when the server refuses a submit because the round already has a
\* submission, the round counts as acknowledged: the next cycle of that loop
\* does not submit for it again.
C11_RefusedRoundNotResubmitted ==
    [][\A t \in Threads :
          (refused[t] # 0 /\ pc[t] = "while" /\ pc'[t] = "submit")
              => snap'[t].currentRound # refused[t]]_vars

\* C12: every cycle whose status call succeeds with the tournament not
\* Completed fetches the results: a submit, acknowledged or not, is followed
\* by the fetch, and a cycle that stores a snapshot goes on to submit or fetch.
C12_EveryCycleFetches ==
    [][\A t \in Threads :
          /\ (pc[t] = "submit" /\ pc'[t] # "submit") => pc'[t] = "fetch"
          /\ (pc[t] = "while" /\ tournament_status' # "Completed"
                 /\ <<tournament_status, round_status, current_round>>'
                        # <<tournament_status, round_status, current_round>>)
                => pc'[t] \in {"submit", "fetch"}]_vars

\* C13: over one server history, once the uninterrupted session and the
\* reconnected session have both observed Completed and fetched the final
\* results, they hold the same results and the same last_completed_round.
C13_ReconnectionEquivalence ==
    (/\ uninterrupted.phase = "done" /\ reconnected.phase = "done"
     /\ uninterrupted.rounds_completed < max_rounds
     /\ reconnected.rounds_completed < max_rounds)
        => /\ reconnected.results = uninterrupted.results
           /\ reconnected.last_completed_round
                  = uninterrupted.last_completed_round

\* the largest roundNumber among the entries of a list, 0 when it is empty
MaxRoundOf(list) ==
    IF list = <<>> THEN 0
    ELSE CHOOSE m \in {list[i].roundNumber : i \in 1..Len(list)} :
             \A i \in 1..Len(list) : list[i].roundNumber <= m

\* no thread has entered its loop yet
BeforeFirstPoll == \A t \in Threads : pc[t] \in {"unborn", "spawned"}

\* C14: after a successful reconnection and before the first poll,
\* last_completed_round is the largest roundNumber among the entries of
\* results, 0 when results is empty.
C14_ReconnectRestoresLastCompleted ==
    (game_agent = "gp" /\ BeforeFirstPoll)
        => last_completed_round = MaxRoundOf(results)

\* C15: a /reconnect whose status call fails leaves no session and starts no
\* polling loop.
C15_FailedReconnectLeavesNothing ==
    reconnect_failed =>
        /\ game_agent = NoAgent
        /\ \A t \in Threads : pc[t] = "unborn"
        /\ ~is_running
        /\ StatusView.status = "not_started"

C15_Witness ==
    /\ reconnect_failed
    /\ game_agent = NoAgent
    /\ ENABLED ReconnectGame

\* C16: a loop started by a reconnection (its results restored, nothing
\* acknowledged to it yet) never submits for a round number that has an entry
\* in results.
C16_NoSubmitForRestoredRound ==
    [][\A t \in Threads :
          (pc[t] = "while" /\ pc'[t] = "submit" /\ rounds_completed[t] = 0)
              => \A i \in 1..Len(results) :
                     results[i].roundNumber # snap'[t].currentRound]_vars

\* C17: a fetch after a submit that stores a new list leaves
\* last_completed_round at the larger of its previous value and the largest
\* roundNumber among the entries received, whatever their order.
C17_LastCompletedIsMaximum ==
    [][\A t \in Threads :
          (pc[t] = "fetch" /\ pc'[t] = "while" /\ results' # results)
              => last_completed_round' =
                     IF MaxRoundOf(results') > last_completed_round
                     THEN MaxRoundOf(results') ELSE last_completed_round]_vars

\* C18: a fetch that finds [{round 1, score 2}] stored and receives
\* [{round 1, score 2}, {round 2, score 1}] leaves exactly two entries, a
\* total score of 3 and last_completed_round 2.
C18_TwoFetchScenario ==
    [][(/\ results = <<[roundNumber |-> 1, score |-> 2]>>
        /\ results' = <<[roundNumber |-> 1, score |-> 2],
                        [roundNumber |-> 2, score |-> 1]>>)
          => /\ Len(results') = 2
             /\ TotalScoreOf(results') = 3
             /\ last_completed_round' = 2]_vars

\* C19: results is ordered by roundNumber and holds each round at most once.
C19_ResultsOrderedAndUnique ==
    \A i, j \in 1..Len(results) :
        i < j => results[i].roundNumber < results[j].roundNumber

\* C20: a poll whose round number is lower than that of the poll accepted
\* before it is ignored, so current_round never decreases.
C20_StalePollIgnored ==
    [][current_round' >= current_round]_vars

\* the round phases of line 86's table
KnownRoundCodes == {None, 0, 1, 2}

\* C21: a poll whose round phase is outside the known values is stored as
\* "Unknown", never as "Not Started", and the cycle that stored it makes no
\* submit; a cycle that goes on to submit read a known round phase.
C21_UnknownPhaseNoSubmit ==
    [][\A t \in Threads :
          /\ \A code \in RoundCodes \ KnownRoundCodes :
                 round_names(code) = "Unknown"
          /\ (pc[t] = "while" /\ pc'[t] # "while" /\ round_status' = "Unknown")
                 => pc'[t] # "submit"
          /\ (pc[t] = "while" /\ pc'[t] = "submit")
                 => snap'[t].currentRoundStatus \in KnownRoundCodes]_vars

C21_Witness ==
    \E t \in Threads :
        /\ pc[t] = "while" /\ is_running
        /\ round_status = "Unknown" /\ tournament_status = "InProgress"

\* an exception was caught: nothing of the session changed, the loop goes on
C23_RaiseStep ==
    \A t \in Threads :
        (~raised[t] /\ raised'[t])
            => /\ pc'[t] = "while"
               /\ is_running' = is_running
               /\ why'[t] = "looping"
               /\ rounds_completed'[t] = rounds_completed[t]

\* as long as running stays true the next cycle can begin
C23_NextCycleOpen ==
    \A t \in Threads :
        (raised[t] /\ is_running)
            => ENABLED (StatusSucceeds(t) \/ StatusFails(t))

C22_InvalidMoveDefaulted ==
    [][(/\ client_pc = "play" /\ client_pc' # "play"
        /\ move' # "" /\ ~ValidMove(move'))
          => /\ Len(submitted') = Len(submitted) + 1
             /\ reason' # "failed_submit"]_vars

\* the return statements of play_tournament that give False
FalseReasons ==
    {"unregistered", "timeout", "eliminated", "missed", "no_match", "no_move",
     "failed_submit", "lost"}

\* C24: play_tournament returns True exactly when its check after a won
\* match reads status Completed; every other return gives False: player not
\* registered, a wait timed out, player eliminated or match lost, round
\* missed, no match, no move, submit failed.
C24_ReturnValue ==
    [][/\ (returned = "none" /\ returned' = "True")
              => /\ client_pc = "check"
                 /\ seen'.state.ok /\ seen'.state.status = 2
       /\ (client_pc = "check" /\ client_pc' # "check"
              /\ seen'.state.ok /\ seen'.state.status = 2)
              => returned' = "True"
       /\ ((returned' = "False") => (reason' \in FalseReasons))
       /\ ((returned' = "True") => (reason' = "completed"))
       /\ ((client_pc' = "returned") <=> (returned' # "none"))]_vars

C24_Witness ==
    /\ returned = "True"
    /\ client_pc = "returned"
    /\ Len(submitted) = MaxClientRound
    /\ seen.state.status = 2

\* C25: wait_for_round_to_start(r) returns True only on a poll that shows
\* current round r with round status InProgress and a current match of round
\* r with status InProgress; a poll that shows the player absent or inactive,
\* or the current round above r, makes it return False at once.
C25_RoundStartDecision ==
    [][(client_pc = "wait_round" /\ attempt < MAX_POLL_ATTEMPTS) =>
          /\ (client_pc' = "play")
                 => /\ seen'.state.ok
                    /\ seen'.state.currentRound = client_round
                    /\ seen'.state.currentRoundStatus = 1
                    /\ seen'.match.ok
                    /\ seen'.match.round = client_round
                    /\ seen'.match.status = 1
          /\ (seen'.state.ok /\ (\/ seen'.state.me # "active"
                                  \/ seen'.state.currentRound > client_round))
                 => /\ returned' = "False"
                    /\ reason' \in {"eliminated", "missed"}]_vars

C25_Witness ==
    /\ client_pc = "play"
    /\ client_round = MaxClientRound
    /\ seen.match.ok /\ seen.match.round = client_round

\* C26: a wait loop makes at most MAX_POLL_ATTEMPTS polls, and when it has
\* made that many the wait, and the run, end with False.
C26_WaitLoopsBounded ==
    /\ [](polls <= MAX_POLL_ATTEMPTS /\ attempt <= MAX_POLL_ATTEMPTS)
    /\ [][(/\ client_pc \in {"wait_start", "wait_round", "wait_match"}
           /\ polls = MAX_POLL_ATTEMPTS)
              => (returned' = "False" /\ reason' = "timeout")]_vars

C26_Witness ==
    /\ returned = "False" /\ reason = "timeout"
    /\ polls = MAX_POLL_ATTEMPTS
    /\ submitted # <<>>

\* C27: the moves posted in one run are those of rounds 1, 2, 3, ... in this
\* order, one per round; a submit that fails ends the run, and nothing is
\* posted after the run has ended.
C27_OneMovePerRoundInOrder ==
    /\ [](\A i \in 1..Len(submitted) : submitted[i] = i)
    /\ [][/\ (submitted' # submitted /\ client_pc' # "wait_match")
                  => (returned' = "False" /\ reason' = "failed_submit")
          /\ ((returned # "none") => (submitted' = submitted))]_vars

C27_Witness ==
    /\ submitted = <<1, 2>>
    /\ returned = "False" /\ reason = "failed_submit"

C30_LeavingStep ==
    \A t \in Threads :
        /\ (pc[t] = "while" /\ pc'[t] = "exit")
               => (~is_running \/ rounds_completed[t] >= max_rounds)
        /\ (pc[t] = "final" /\ pc'[t] # "final")
               => (pc'[t] = "exit" /\ why'[t] = "completed")
        /\ (pc[t] = "exit" /\ pc'[t] = "done") => ~is_running'

Polling(i) == {k \in Starts : loops[i][k] = "while"}

\* C28: whatever the calls of start_autonomous_play and the moments the
\* threads start, an instance has at most one thread in its polling loop.
C28_OneLoopPerInstance ==
    \A i \in Instances : Cardinality(Polling(i)) <= 1

\* C29: after any /start, /reconnect and /reset requests, in the end only the
\* instance game_agent names has a thread in its polling loop: the loops of
\* an instance that was replaced or reset come to an end.
C29_OnlyCurrentKeepsPolling ==
    \A i \in Instances : <>[](current # i => Polling(i) = {})

====
